---- MODULE Spec2Model ----
(***************************************************************************)
(* Model of the canvas editor's client-side state machines:                *)
(*   - useCanvasHistory (undo/redo log over serialized canvas states),     *)
(*   - the editor page effect that wires the log to the canvas events,     *)
(*   - useAutoSave (debounced persistence of the serialized canvas).       *)
(* The drawing surface (a fabric.Canvas) is the environment: it owns a     *)
(* list of objects, serializes it, and fires object:* events when the      *)
(* list changes, also while it rebuilds itself from a serialized state.    *)
(***************************************************************************)
EXTENDS Integers, Sequences, FiniteSets, TLC

\* Capacity of the log. The source uses 50 (saveState, "Limit history to 50
\* states"); the model runs the same code with a small capacity.
MAX_HISTORY == 3

\* Most loadFromJSON calls whose completion is still outstanding.
MaxPending == 2

\* Most consecutive records the bookkeeping follows.
MaxRecorded == MAX_HISTORY + 2

\* The auto-save interval in clock ticks. The page passes 30000 ms; the model
\* counts ticks of 10000 ms.
Interval == 3

VARIABLES
    canvas,        \* editor page state `canvas`: "null" or "canvas"
    surface,       \* the canvas's objects: stacking slot -> "absent"/"orig"/"edited"
    listening,     \* the history handler is registered on the canvas
    history,       \* historyRef.current
    historyStep,   \* historyStepRef.current
    canUndo,       \* React state canUndo
    canRedo,       \* React state canRedo
    loads,         \* loadFromJSON calls whose callback has not run yet
    lastOp,        \* bookkeeping: the operation of the last step and what it did
    tracking,      \* bookkeeping: nothing but records has changed the log so far
    recorded,      \* bookkeeping: while tracking, the blobs recorded so far
    fresh,         \* bookkeeping: saveState has run and undo() was not called since
    trip,          \* bookkeeping: an undo() then redo() in progress, and the state before it
    jobId,         \* BatchGenerator state jobId: 0 for null
    jobStatus,     \* BatchGenerator state jobStatus: "null" or the status it shows
    results,       \* BatchGenerator state results: 0 for [], j for the mockups of job j
    isStarting,    \* BatchGenerator state isStarting: a start request is outstanding
    backendJobs,   \* the backend's status of each job
    pollInterval,  \* the live setInterval handle of the polling effect: 0 for none
    intervalsMade, \* how many setInterval handles the effect has created
    polls,         \* interval callbacks that are awaiting a response
    cancels,       \* handleCancel calls that are awaiting the response
    fetched,       \* bookkeeping: getResults requests issued per job (2: two or more)
    completions,   \* bookkeeping: onComplete invocations per job (2: two or more)
    terminalSeen,  \* bookkeeping: a terminal status of the job has been received
    sinceReset,    \* bookkeeping: handleReset ran and handleStart was not called since
    mounted,       \* the component using useAutoSave is mounted
    autoListening, \* handleModification is registered on the canvas
    timers,        \* pending setTimeout timers: [id, left = ticks until it fires]
    timeoutRef,    \* timeoutRef.current: a timer id, 0 for undefined
    isSaving,      \* isSavingRef.current
    saving,        \* onSave calls that have not settled yet: the blob of each
    lastSaved,     \* lastSavedRef.current
    thrown,        \* a rejection has left saveCanvas to its caller
    sinceMutation, \* bookkeeping: ticks since scheduleAutoSave last ran (capped)
    gap,           \* bookkeeping: ticks between its last two runs (capped)
    prevFlush,     \* bookkeeping: what the last saveCanvas since the last surface
                   \* change did: "none", "skipped", "called", "calledFailed"
    afterFail      \* bookkeeping: "no", or since an onSave call was rejected
                   \* nothing but ticks, timers and settlements happened:
                   \* "failed" (a timer was pending then), "failedIdle" (none was)

histVars == <<history, historyStep, canUndo, canRedo>>

\* The state of useCanvasHistory and its bookkeeping.
historyVars == <<listening, history, historyStep, canUndo, canRedo, loads,
                 tracking, recorded, fresh, trip>>

\* The state of useAutoSave and its bookkeeping.
autoVars == <<mounted, autoListening, timers, timeoutRef, isSaving, saving,
              lastSaved, thrown, sinceMutation, gap, prevFlush, afterFail>>

\* The state of BatchGenerator, of the backend's jobs, and the bookkeeping.
batchVars == <<jobId, jobStatus, results, isStarting, backendJobs, pollInterval,
               intervalsMade, polls, cancels, fetched, completions,
               terminalSeen, sinceReset>>

vars == <<canvas, surface, lastOp, historyVars, autoVars, batchVars>>

----------------------------------------------------------------------------
\* The surface (environment)

\* Stacking slots of the canvas, bottom first: the editor's canvas holds the
\* mockup image that CanvasEditor adds to it.
Slots == <<"img">>

Objects == {Slots[i] : i \in DOMAIN Slots}

ObjStates == {"absent", "orig", "edited"}

EmptySurface == [o \in Objects |-> "absent"]

\* JSON.stringify(canvas.toJSON()): the present objects, bottom first, each
\* with its properties.
RECURSIVE ToJSONFrom(_, _)
ToJSONFrom(s, i) ==
    IF i > Len(Slots) THEN <<>>
    ELSE (IF s[Slots[i]] = "absent" THEN <<>> ELSE << <<Slots[i], s[Slots[i]]>> >>)
         \o ToJSONFrom(s, i + 1)

ToJSON(s) == ToJSONFrom(s, 1)

\* The object list a serialized state is parsed back into.
FromJSON(json) ==
    [o \in Objects |->
        IF \E k \in DOMAIN json : json[k][1] = o
        THEN (CHOOSE st \in ObjStates : \E k \in DOMAIN json : json[k] = <<o, st>>)
        ELSE "absent"]

Blobs == {ToJSON(s) : s \in [Objects -> ObjStates]}

Toggle(st) == IF st = "orig" THEN "edited" ELSE "orig"

\* clear(): the canvas removes its objects one at a time and fires
\* object:removed after each removal; the serialized states seen by the
\* handlers of these events, in order.
RECURSIVE ClearSnaps(_, _)
ClearSnaps(s, i) ==
    IF i > Len(Slots) THEN <<>>
    ELSE IF s[Slots[i]] = "absent" THEN ClearSnaps(s, i + 1)
    ELSE LET s1 == [s EXCEPT ![Slots[i]] = "absent"]
         IN  <<ToJSON(s1)>> \o ClearSnaps(s1, i + 1)

\* The canvas inserts the revived objects one at a time and fires
\* object:added after each insertion.
RECURSIVE InsertSnaps(_, _, _)
InsertSnaps(s, target, i) ==
    IF i > Len(Slots) THEN <<>>
    ELSE IF target[Slots[i]] = "absent" THEN InsertSnaps(s, target, i + 1)
    ELSE LET s1 == [s EXCEPT ![Slots[i]] = target[Slots[i]]]
         IN  <<ToJSON(s1)>> \o InsertSnaps(s1, target, i + 1)

----------------------------------------------------------------------------
\* useCanvasHistory

Min(a, b) == IF a < b THEN a ELSE b
Max(a, b) == IF a > b THEN a ELSE b

\* Array.prototype.slice(0, end)
Slice(arr, end) ==
    IF end >= 0 THEN SubSeq(arr, 1, Min(end, Len(arr)))
    ELSE SubSeq(arr, 1, Max(0, Len(arr) + end))

Undefined == "undefined"

\* arr[i] of a JavaScript array
At(arr, i) == IF i + 1 \in DOMAIN arr THEN arr[i + 1] ELSE Undefined

\* The mutable state of one hook instance.
Hist == [history |-> history, historyStep |-> historyStep,
         canUndo |-> canUndo, canRedo |-> canRedo]

\* saveState() without the eviction of the oldest entry.
SaveState_NoEvict(h, json) ==
    LET pushed == Append(Slice(h.history, h.historyStep + 1), json)
        step1  == h.historyStep + 1
    IN  [history |-> pushed, historyStep |-> step1,
         canUndo |-> step1 > 0, canRedo |-> FALSE]

\* saveState() pushing onto the whole log, entries after the position included.
SaveState_NoCut(h, json) ==
    LET pushed == Append(h.history, json)
        step1  == h.historyStep + 1
        over   == Len(pushed) > MAX_HISTORY
        step2  == IF over THEN step1 - 1 ELSE step1
    IN  [history     |-> IF over THEN Tail(pushed) ELSE pushed,
         historyStep |-> step2,
         canUndo     |-> step2 > 0,
         canRedo     |-> FALSE]

\* saveState() evicting the newest entry instead of the oldest.
SaveState_EvictNewest(h, json) ==
    LET pushed == Append(Slice(h.history, h.historyStep + 1), json)
        step1  == h.historyStep + 1
        over   == Len(pushed) > MAX_HISTORY
        step2  == IF over THEN step1 - 1 ELSE step1
    IN  [history     |-> IF over THEN SubSeq(pushed, 1, Len(pushed) - 1) ELSE pushed,
         historyStep |-> step2,
         canUndo     |-> step2 > 0,
         canRedo     |-> FALSE]

\* saveState() slicing one entry short: slice(0, step) for slice(0, step + 1).
SaveState_SliceShort(h, json) ==
    LET pushed == Append(Slice(h.history, Max(h.historyStep, 0)), json)
        step1  == h.historyStep + 1
        over   == Len(pushed) > MAX_HISTORY
        step2  == IF over THEN step1 - 1 ELSE step1
    IN  [history     |-> IF over THEN Tail(pushed) ELSE pushed,
         historyStep |-> step2,
         canUndo     |-> step2 > 0,
         canRedo     |-> FALSE]

\* saveState() leaving canRedo as it was.
SaveState_KeepsRedo(h, json) ==
    LET pushed == Append(Slice(h.history, h.historyStep + 1), json)
        step1  == h.historyStep + 1
        over   == Len(pushed) > MAX_HISTORY
        step2  == IF over THEN step1 - 1 ELSE step1
    IN  [history     |-> IF over THEN Tail(pushed) ELSE pushed,
         historyStep |-> step2,
         canUndo     |-> step2 > 0,
         canRedo     |-> h.canRedo]

\* saveState() with a non-null canvas that serializes to json.
SaveState(h, json) ==
    LET cut    == Slice(h.history, h.historyStep + 1)
        pushed == Append(cut, json)
        step1  == h.historyStep + 1
        over   == Len(pushed) > MAX_HISTORY
        step2  == IF over THEN step1 - 1 ELSE step1
    IN  [history     |-> IF over THEN Tail(pushed) ELSE pushed,
         historyStep |-> step2,
         canUndo     |-> step2 > 0,
         canRedo     |-> FALSE]

\* The events initHistory registers its handler for.
HistoryEvents == {"object:added", "object:removed", "object:modified",
                  "object:skewing"}

\* A handler that canvas.off does not remove.
Handler_StaysRegistered(h, ev, json) ==
    IF ev \in HistoryEvents /\ h.history # <<>> THEN SaveState(h, json) ELSE h

\* The handler of initHistory, run once per fired event while registered.
Handler(h, ev, json) ==
    IF listening /\ ev \in HistoryEvents THEN SaveState(h, json) ELSE h

RECURSIVE HandleAll(_, _, _)
HandleAll(h, ev, snaps) ==
    IF snaps = <<>> THEN h
    ELSE HandleAll(Handler(h, ev, Head(snaps)), ev, Tail(snaps))

----------------------------------------------------------------------------
\* Bookkeeping

\* What the last step was; for a step that records, the number of entries
\* after the position that the record discarded.
Op(name, before) ==
    [op      |-> name,
     dropped |-> Len(before.history) - Len(Slice(before.history, before.historyStep + 1))]

Plain(name) == [op |-> name, dropped |-> 0]

Track(json) ==
    IF tracking /\ Len(recorded) < MaxRecorded
    THEN /\ tracking' = TRUE
         /\ recorded' = Append(recorded, json)
    ELSE /\ tracking' = FALSE
         /\ recorded' = <<>>

Untrack ==
    /\ tracking' = FALSE
    /\ recorded' = <<>>

\* No undo-then-redo is being followed.
NoTrip == [stage |-> "none", log |-> <<>>, step |-> -1, blob |-> <<>>]

\* undo() is called with nothing pending, the handler registered and the
\* surface as the entry at the position recorded it.
TripStart ==
    IF /\ loads = <<>>
       /\ listening
       /\ At(history, historyStep) = ToJSON(surface)
    THEN [stage |-> "undoCalled", log |-> history, step |-> historyStep,
          blob |-> ToJSON(surface)]
    ELSE NoTrip

\* redo() is called: it follows the undo whose deserialize has completed.
TripRedo(blocked) ==
    IF trip.stage = "undoLoaded"
    THEN [trip EXCEPT !.stage = IF blocked THEN "done" ELSE "redoCalled"]
    ELSE NoTrip

\* A deserialize of the given kind completes.
TripLoaded(kind) ==
    IF kind = "undo" /\ trip.stage = "undoCalled"
    THEN [trip EXCEPT !.stage = "undoLoaded"]
    ELSE IF kind = "redo" /\ trip.stage = "redoCalled"
    THEN [trip EXCEPT !.stage = "done"]
    ELSE NoTrip

SetHist(h) ==
    /\ history' = h.history
    /\ historyStep' = h.historyStep
    /\ canUndo' = h.canUndo
    /\ canRedo' = h.canRedo

----------------------------------------------------------------------------
\* useAutoSave

\* lastSavedRef before the first save: the empty string, equal to no blob.
NoBlob == << <<"", "">> >>

\* The refs of a mounted hook and the bookkeeping.
AutoInit ==
    /\ mounted = TRUE
    /\ autoListening = FALSE
    /\ timers = {}
    /\ timeoutRef = 0
    /\ isSaving = FALSE
    /\ saving = <<>>
    /\ lastSaved = NoBlob
    /\ thrown = FALSE
    /\ sinceMutation = Interval + 1
    /\ gap = Interval + 1
    /\ prevFlush = "none"
    /\ afterFail = "no"

----------------------------------------------------------------------------
\* BatchGenerator

MaxJobs == 2
MaxPolls == 2
MaxIntervals == 3

Jobs == 1 .. MaxJobs

\* The statuses on which the interval callback stops polling.
StopStatuses == {"completed", "failed"}

\* The statuses after which the backend no longer changes a job.
TerminalStatuses == {"completed", "failed", "cancelled"}

\* The component as mounted, and no job on the backend.
BatchInit ==
    /\ jobId = 0
    /\ jobStatus = "null"
    /\ results = 0
    /\ isStarting = FALSE
    /\ backendJobs = [j \in Jobs |-> "none"]
    /\ pollInterval = 0
    /\ intervalsMade = 0
    /\ polls = <<>>
    /\ cancels = <<>>
    /\ fetched = [j \in Jobs |-> 0]
    /\ completions = [j \in Jobs |-> 0]
    /\ terminalSeen = [j \in Jobs |-> FALSE]
    /\ sinceReset = FALSE

----------------------------------------------------------------------------
\* Actions of the history log

Init ==
    /\ canvas = "null"
    /\ surface = EmptySurface
    /\ listening = FALSE
    /\ history = <<>>
    /\ historyStep = -1
    /\ canUndo = FALSE
    /\ canRedo = FALSE
    /\ loads = <<>>
    /\ lastOp = Plain("init")
    /\ tracking = TRUE
    /\ recorded = <<>>
    /\ fresh = FALSE
    /\ trip = NoTrip
    /\ AutoInit
    /\ BatchInit

\* handleCanvasChange: the page receives the canvas instance.
HandleCanvasChange ==
    /\ canvas = "null"
    /\ canvas' = "canvas"
    /\ lastOp' = Plain("canvas")
    /\ UNCHANGED <<surface, historyVars, autoVars, batchVars>>

\* The page effect runs initHistory(): one saveState, then the handler is
\* registered.
InitHistory ==
    /\ canvas = "canvas"
    /\ ~listening
    /\ SetHist(SaveState(Hist, ToJSON(surface)))
    /\ lastOp' = Op("attach", Hist)
    /\ listening' = TRUE
    /\ Track(ToJSON(surface))
    /\ fresh' = TRUE
    /\ trip' = NoTrip
    /\ UNCHANGED <<canvas, surface, loads, autoVars, batchVars>>

\* The cleanup returned by initHistory(): canvas.off for every event. Called
\* again after it has removed the handler, canvas.off finds nothing to remove.
Cleanup ==
    /\ history # <<>>
    /\ listening' = FALSE
    /\ lastOp' = Plain(IF listening THEN "detach" ELSE "detachAgain")
    /\ trip' = NoTrip
    /\ UNCHANGED <<canvas, surface, history, historyStep, canUndo, canRedo,
                   loads, tracking, recorded, fresh, autoVars, batchVars>>

\* The surface changes to s1 and fires event ev once.
Mutate(s1, ev) ==
    /\ surface' = s1
    /\ SetHist(Handler(Hist, ev, ToJSON(s1)))
    /\ IF listening /\ ev \in HistoryEvents
       THEN /\ lastOp' = Op("record", Hist)
            /\ Track(ToJSON(s1))
            /\ fresh' = TRUE
       ELSE /\ lastOp' = Plain("edit")
            /\ UNCHANGED <<tracking, recorded, fresh>>
    /\ trip' = NoTrip
    /\ UNCHANGED <<canvas, listening, loads, autoVars, batchVars>>

\* canvas.add(img) once the mockup image has loaded.
AddObject(o) ==
    /\ surface[o] = "absent"
    /\ Mutate([surface EXCEPT ![o] = "orig"], "object:added")

\* canvas.remove(activeObject)
RemoveObject(o) ==
    /\ surface[o] # "absent"
    /\ canvas = "canvas"
    /\ Mutate([surface EXCEPT ![o] = "absent"], "object:removed")

\* The user finishes moving, scaling or rotating an object.
ModifyObject(o) ==
    /\ surface[o] # "absent"
    /\ Mutate([surface EXCEPT ![o] = Toggle(surface[o])], "object:modified")

\* The user drags a skew control of an object.
SkewObject(o) ==
    /\ surface[o] # "absent"
    /\ Mutate([surface EXCEPT ![o] = Toggle(surface[o])], "object:skewing")

\* canvas.loadFromJSON(state, callback): nothing happens for a missing state;
\* otherwise the canvas starts reviving the objects of state.
StartLoad(state, kind) ==
    IF state = Undefined THEN loads' = loads
    ELSE loads' = Append(loads, [state |-> state, kind |-> kind])

UndoBlocked_StrictlyBelow == canvas = "null" \/ historyStep < 0

\* The early return of undo()
UndoBlocked == canvas = "null" \/ historyStep <= 0

RedoBlocked_StrictlyAbove == canvas = "null" \/ historyStep > Len(history) - 1

\* The early return of redo()
RedoBlocked == canvas = "null" \/ historyStep >= Len(history) - 1

\* undo()
Undo ==
    /\ UndoBlocked \/ Len(loads) < MaxPending
    /\ lastOp' = Plain("undo")
    /\ fresh' = FALSE
    /\ trip' = IF UndoBlocked THEN NoTrip ELSE TripStart
    /\ IF UndoBlocked
       THEN UNCHANGED <<history, historyStep, canUndo, canRedo, loads,
                        tracking, recorded>>
       ELSE /\ historyStep' = historyStep - 1
            /\ StartLoad(At(history, historyStep - 1), "undo")
            /\ Untrack
            /\ UNCHANGED <<history, canUndo, canRedo>>
    /\ UNCHANGED <<canvas, surface, listening, autoVars, batchVars>>

\* redo()
Redo ==
    /\ RedoBlocked \/ Len(loads) < MaxPending
    /\ lastOp' = Plain("redo")
    /\ UNCHANGED fresh
    /\ trip' = TripRedo(RedoBlocked)
    /\ IF RedoBlocked
       THEN UNCHANGED <<history, historyStep, canUndo, canRedo, loads,
                        tracking, recorded>>
       ELSE /\ historyStep' = historyStep + 1
            /\ StartLoad(At(history, historyStep + 1), "redo")
            /\ Untrack
            /\ UNCHANGED <<history, canUndo, canRedo>>
    /\ UNCHANGED <<canvas, surface, listening, autoVars, batchVars>>

\* The callback passed to loadFromJSON by undo() or redo().
Callback(h, kind) ==
    IF kind = "undo"
    THEN [h EXCEPT !.canUndo = h.historyStep > 0, !.canRedo = TRUE]
    ELSE [h EXCEPT !.canUndo = TRUE,
                   !.canRedo = h.historyStep < Len(h.history) - 1]

\* A pending loadFromJSON completes: the canvas clears itself and inserts the
\* revived objects, firing its events, and then runs the callback.
LoadComplete(i) ==
    LET ld     == loads[i]
        target == FromJSON(ld.state)
        h1     == HandleAll(Hist, "object:removed", ClearSnaps(surface, 1))
        h2     == HandleAll(h1, "object:added", InsertSnaps(EmptySurface, target, 1))
    IN  /\ surface' = target
        /\ SetHist(Callback(h2, ld.kind))
        /\ loads' = SubSeq(loads, 1, i - 1) \o SubSeq(loads, i + 1, Len(loads))
        /\ lastOp' = Plain(IF ld.kind = "undo" THEN "undoLoaded" ELSE "redoLoaded")
        /\ Untrack
        /\ fresh' = (fresh \/ h2 # Hist)
        /\ trip' = TripLoaded(ld.kind)
        /\ UNCHANGED <<canvas, listening, autoVars, batchVars>>

Next ==
    \/ HandleCanvasChange
    \/ InitHistory
    \/ Cleanup
    \/ \E o \in Objects : AddObject(o)
    \/ \E o \in Objects : RemoveObject(o)
    \/ \E o \in Objects : ModifyObject(o)
    \/ \E o \in Objects : SkewObject(o)
    \/ Undo
    \/ Redo
    \/ \E i \in DOMAIN loads : LoadComplete(i)

Spec == Init /\ [][Next]_vars

TypeOK ==
    /\ canvas \in {"null", "canvas"}
    /\ surface \in [Objects -> ObjStates]
    /\ listening \in BOOLEAN
    /\ \A k \in DOMAIN history : history[k] \in Blobs
    /\ historyStep \in -1 .. MAX_HISTORY
    /\ canUndo \in BOOLEAN /\ canRedo \in BOOLEAN
    /\ Len(loads) <= MaxPending
    /\ tracking \in BOOLEAN
    /\ Len(recorded) <= MaxRecorded
    /\ fresh \in BOOLEAN
    /\ trip.stage \in {"none", "undoCalled", "undoLoaded", "redoCalled", "done"}

----------------------------------------------------------------------------
\* Properties of the history log

\* A step in which saveState ran exactly once: the attach, or one surface
\* event delivered to the handler.
RecordStep == lastOp'.op \in {"attach", "record"}

\* C1: whenever the log is non-empty the position is an index of it
\* (0 <= position < length); the log is empty only with position -1, before
\* the first record.
PositionInRange ==
    /\ Len(history) > 0 => (0 <= historyStep /\ historyStep < Len(history))
    /\ Len(history) = 0 => (historyStep = -1 /\ tracking /\ recorded = <<>>)

\* An undo has moved the position down to the first entry of a longer log.
PositionInRangeWitness ==
    /\ lastOp.op = "undo"
    /\ loads # <<>>
    /\ historyStep = 0
    /\ Len(history) > 1

\* C2: the log never holds more than MAX_HISTORY entries.
LogBounded == Len(history) <= MAX_HISTORY

\* A record has just been made into a full log from which entries were evicted.
LogBoundedWitness ==
    /\ lastOp.op = "record"
    /\ Len(history) = MAX_HISTORY
    /\ tracking
    /\ Len(recorded) > MAX_HISTORY

\* C3: a record discards the entries after the position, appends the blob
\* serialized from the surface and leaves the position at the last entry.
RecordTruncatesThenAppends ==
    [][RecordStep =>
        LET kept == SubSeq(history, 1, historyStep + 1)
            full == Append(kept, ToJSON(surface'))
        IN  /\ history' = IF Len(full) > MAX_HISTORY THEN Tail(full) ELSE full
            /\ historyStep' = Len(history') - 1
            /\ history'[historyStep' + 1] = ToJSON(surface')]_vars

\* A record made at position 0 of a two-entry log has discarded the second
\* entry: the log holds two entries again and the position is 1.
RecordTruncatesWitness ==
    /\ lastOp.op = "record"
    /\ lastOp.dropped = 1
    /\ Len(history) = 2
    /\ historyStep = 1
    /\ history[2] = ToJSON(surface)

\* After N > MAX_HISTORY consecutive records the log is the last MAX_HISTORY
\* recorded blobs in recording order and the position is the last entry.
LastRecordedKept ==
    (tracking /\ Len(recorded) > MAX_HISTORY) =>
        /\ history = SubSeq(recorded, Len(recorded) - MAX_HISTORY + 1, Len(recorded))
        /\ historyStep = MAX_HISTORY - 1
        /\ history[historyStep + 1] = recorded[Len(recorded)]

\* A record into a full log whose position is the last entry evicts entry 0
\* only, and the position stays MAX_HISTORY - 1 (incremented, then decremented).
EvictsOldestStep ==
    (RecordStep /\ Len(history) = MAX_HISTORY /\ historyStep = MAX_HISTORY - 1) =>
        /\ history' = Append(Tail(history), ToJSON(surface'))
        /\ historyStep' = historyStep

\* C4: a record into a log at capacity evicts exactly the oldest entry and
\* compensates the position, so more than MAX_HISTORY consecutive records leave
\* the last MAX_HISTORY recorded blobs, in order, with the position on the newest.
EvictsOldest == []LastRecordedKept /\ [][EvictsOldestStep]_vars

\* MAX_HISTORY + 1 consecutive records have been made.
EvictsOldestWitness ==
    /\ tracking
    /\ Len(recorded) = MAX_HISTORY + 1
    /\ lastOp.op = "record"
    /\ history = Tail(recorded)

\* C5: from the empty log, N <= MAX_HISTORY consecutive records give a log of
\* N entries with the position at N - 1.
ConsecutiveRecords ==
    (tracking /\ Len(recorded) <= MAX_HISTORY) =>
        /\ Len(history) = Len(recorded)
        /\ historyStep = Len(recorded) - 1
        /\ history = recorded

\* MAX_HISTORY consecutive records have been made.
ConsecutiveRecordsWitness ==
    /\ tracking
    /\ Len(recorded) = MAX_HISTORY
    /\ lastOp.op = "record"

----------------------------------------------------------------------------
\* Properties of undo and redo

\* A step in which a loadFromJSON started by undo() or redo() completes.
DeserializeStep == lastOp'.op \in {"undoLoaded", "redoLoaded"}

\* C6: an event the surface fires while it deserializes for undo() or redo()
\* does not reach saveState: the completion of a manager-initiated
\* loadFromJSON appends nothing to the log, discards nothing from it and
\* leaves the position where undo() or redo() put it.
DeserializeDoesNotRecord ==
    [][DeserializeStep =>
        /\ history' = history
        /\ historyStep' = historyStep]_vars

\* The call of undo() with position > 0: one step back, the log untouched,
\* loadFromJSON started with the entry at the new position.
UndoCallStep ==
    (lastOp'.op = "undo" /\ historyStep > 0) =>
        /\ historyStep' = historyStep - 1
        /\ history' = history
        /\ loads' = Append(loads, [state |-> history[historyStep' + 1],
                                   kind |-> "undo"])

\* The completion of the deserialize undo() started: the surface holds the
\* loaded state, the log and position are untouched, the flags are set.
UndoLoadedStep ==
    lastOp'.op = "undoLoaded" =>
        /\ history' = history
        /\ historyStep' = historyStep
        /\ \E i \in DOMAIN loads : /\ loads[i].kind = "undo"
                                   /\ ToJSON(surface') = loads[i].state
        /\ canUndo' = (historyStep' > 0)
        /\ canRedo' = TRUE

\* C7: undo() with position > 0 decrements the position by one, deserializes
\* the entry at the new position, leaves the log's contents and length
\* unchanged, and ends with canUndo = (position > 0) and canRedo = TRUE.
UndoMovesBack == [][UndoCallStep /\ UndoLoadedStep]_vars

\* The call of redo() with position < length - 1.
RedoCallStep ==
    (lastOp'.op = "redo" /\ historyStep < Len(history) - 1) =>
        /\ historyStep' = historyStep + 1
        /\ history' = history
        /\ loads' = Append(loads, [state |-> history[historyStep' + 1],
                                   kind |-> "redo"])

\* The completion of the deserialize redo() started.
RedoLoadedStep ==
    lastOp'.op = "redoLoaded" =>
        /\ history' = history
        /\ historyStep' = historyStep
        /\ \E i \in DOMAIN loads : /\ loads[i].kind = "redo"
                                   /\ ToJSON(surface') = loads[i].state
        /\ canUndo' = TRUE
        /\ canRedo' = (historyStep' < Len(history') - 1)

\* C8: redo() with position < length - 1 increments the position by one,
\* deserializes the entry at the new position, leaves the log's contents and
\* length unchanged, and ends with canUndo = TRUE and
\* canRedo = (position < length - 1).
RedoMovesForward == [][RedoCallStep /\ RedoLoadedStep]_vars

\* C9: undo() with position <= 0 (the empty log and the null canvas included)
\* changes neither the position, the log nor the flags and starts no
\* deserialize.
UndoAtStartIsNoOp ==
    [][(lastOp'.op = "undo" /\ (historyStep <= 0 \/ canvas = "null")) =>
        UNCHANGED <<history, historyStep, canUndo, canRedo, loads, surface>>]_vars

\* undo() has just returned early at position 0 of a non-empty log.
UndoAtStartWitness ==
    /\ lastOp.op = "undo"
    /\ canvas = "canvas"
    /\ historyStep = 0
    /\ Len(history) > 0
    /\ loads = <<>>

\* C10: redo() with position >= length - 1 changes neither the position, the
\* log nor the flags and starts no deserialize.
RedoAtEndIsNoOp ==
    [][(lastOp'.op = "redo" /\ historyStep >= Len(history) - 1) =>
        UNCHANGED <<history, historyStep, canUndo, canRedo, loads, surface>>]_vars

\* redo() has just returned early at the last entry of a non-empty log.
RedoAtEndWitness ==
    /\ lastOp.op = "redo"
    /\ canvas = "canvas"
    /\ Len(history) > 1
    /\ historyStep = Len(history) - 1
    /\ loads = <<>>

----------------------------------------------------------------------------
\* Properties of attach and detach

AttachSeedsOneEntry ==
    [][lastOp'.op = "attach" =>
        /\ history' = <<ToJSON(surface')>>
        /\ historyStep' = 0]_vars

\* C13: once the detach handle has been called no surface event changes the
\* log or the position, and calling the handle again changes nothing.
DetachStopsRecording ==
    [][/\ (~listening /\ history # <<>> /\ lastOp'.op \in {"edit", "record", "undoLoaded", "redoLoaded"})
            => UNCHANGED <<history, historyStep>>
       /\ lastOp'.op = "detachAgain"
            => UNCHANGED <<listening, history, historyStep, canUndo, canRedo,
                           loads, surface>>]_vars

\* The surface has fired an event after the detach handle was called.
DetachStopsRecordingWitness ==
    /\ lastOp.op = "edit"
    /\ ~listening
    /\ history # <<>>
    /\ history[Len(history)] # ToJSON(surface)

----------------------------------------------------------------------------
\* Actions of useAutoSave. The history log is left out of these steps: the
\* log never reads or writes the refs of useAutoSave, and what undo and redo
\* do to the surface is the step Deserialized below.

\* The events the listener effect registers handleModification for.
AutoSaveEvents == {"object:modified", "object:added", "object:removed"}

TimerIds(ts) == {t.id : t \in ts}

\* The handle setTimeout returns: an id no live timer has, never the one
\* timeoutRef still holds.
NewTimer(ts, ref) ==
    CHOOSE i \in 1 .. (Cardinality(ts) + 2) : i \notin TimerIds(ts) \cup {ref}

\* scheduleAutoSave() starting a timer without clearing the pending one.
Scheduled_NoClear(ts, ref) ==
    LET id == NewTimer(ts, ref)
    IN  [timers     |-> ts \cup {[id |-> id, left |-> Interval]},
         timeoutRef |-> id]

\* scheduleAutoSave() keeping a pending timer instead of replacing it.
Scheduled_KeepsPending(ts, ref) ==
    IF \E t \in ts : t.id = ref
    THEN [timers |-> ts, timeoutRef |-> ref]
    ELSE LET id == NewTimer(ts, ref)
         IN  [timers     |-> ts \cup {[id |-> id, left |-> Interval]},
              timeoutRef |-> id]

\* scheduleAutoSave(): clearTimeout(timeoutRef.current), then setTimeout.
Scheduled(ts, ref) ==
    LET cleared == {t \in ts : t.id # ref}
        id      == NewTimer(cleared, ref)
    IN  [timers     |-> cleared \cup {[id |-> id, left |-> Interval]},
         timeoutRef |-> id]

\* saveCanvas() without the isSavingRef test.
ShouldSave_NoBusyTest(cv, busy, cur, last) == cv # "null" /\ cur # last

\* saveCanvas() without the comparison with lastSavedRef.
ShouldSave_NoEqualTest(cv, busy, cur, last) == cv # "null" /\ ~busy

\* saveCanvas(): the two early returns; TRUE when onSave is called.
ShouldSave(cv, busy, cur, last) == cv # "null" /\ ~busy /\ cur # last

\* saveCanvas() recording the blob as saved in the finally block.
Settled_RecordsFailure(last, blob, outcome) ==
    [lastSaved |-> blob, isSaving |-> FALSE, thrown |-> FALSE]

\* saveCanvas() after the await: the try, catch and finally blocks.
Settled(last, blob, outcome) ==
    [lastSaved |-> IF outcome = "resolved" THEN blob ELSE last,
     isSaving  |-> FALSE,
     thrown    |-> FALSE]

Cap(n) == Min(n, Interval + 1)

\* The listener effect runs once the page holds the canvas.
AutoSaveEffect ==
    /\ mounted
    /\ canvas = "canvas"
    /\ ~autoListening
    /\ autoListening' = TRUE
    /\ lastOp' = Plain("effect")
    /\ UNCHANGED <<canvas, surface, historyVars, batchVars, mounted, timers, timeoutRef,
                   isSaving, saving, lastSaved, thrown, sinceMutation, gap,
                   prevFlush, afterFail>>

\* handleModification: scheduleAutoSave(), when the event is one it listens to.
OnEvents(evs) ==
    IF autoListening /\ evs \cap AutoSaveEvents # {}
    THEN /\ timers' = Scheduled(timers, timeoutRef).timers
         /\ timeoutRef' = Scheduled(timers, timeoutRef).timeoutRef
         /\ sinceMutation' = 0
         /\ gap' = sinceMutation
    ELSE UNCHANGED <<timers, timeoutRef, sinceMutation, gap>>

\* The changes a user can make to the surface s, each with the event it fires.
EditsOf(s) ==
    {<<[s EXCEPT ![o] = "orig"], "object:added">> :
        o \in {x \in Objects : s[x] = "absent"}}
    \cup {<<[s EXCEPT ![o] = "absent"], "object:removed">> :
        o \in {x \in Objects : s[x] # "absent" /\ canvas = "canvas"}}
    \cup {<<[s EXCEPT ![o] = Toggle(s[o])], ev>> :
        o \in {x \in Objects : s[x] # "absent"},
        ev \in {"object:modified", "object:skewing"}}

\* The user changes the surface, which fires its event.
SurfaceEdit ==
    \E e \in EditsOf(surface) :
        /\ surface' = e[1]
        /\ OnEvents({e[2]})
        /\ lastOp' = Plain(IF e[2] = "object:skewing" THEN "skew" ELSE "mutation")
        /\ prevFlush' = "none"
        /\ afterFail' = "no"
        /\ UNCHANGED <<canvas, historyVars, batchVars, mounted, autoListening, isSaving,
                       saving, lastSaved, thrown>>

\* A loadFromJSON(json) of undo() or redo() completes: the surface becomes the
\* loaded state and fires object:removed and object:added on the way.
Deserialized(json) ==
    /\ canvas = "canvas"
    /\ surface' = FromJSON(json)
    /\ OnEvents((IF ClearSnaps(surface, 1) # <<>> THEN {"object:removed"} ELSE {})
                \cup (IF json # <<>> THEN {"object:added"} ELSE {}))
    /\ lastOp' = Plain("mutation")
    /\ prevFlush' = "none"
    /\ afterFail' = "no"
    /\ UNCHANGED <<canvas, historyVars, batchVars, mounted, autoListening, isSaving,
                   saving, lastSaved, thrown>>

\* saveCanvas() up to the await of onSave.
SaveCanvas ==
    LET cur  == ToJSON(surface)
        call == ShouldSave(canvas, isSaving, cur, lastSaved)
    IN  /\ IF call
           THEN /\ isSaving' = TRUE
                /\ saving' = Append(saving, cur)
           ELSE UNCHANGED <<isSaving, saving>>
        /\ prevFlush' = IF call THEN "called"
                        ELSE IF prevFlush \in {"called", "suppressed"}
                             THEN "suppressed" ELSE "skipped"
        /\ UNCHANGED <<lastSaved, thrown>>

\* The timer callback of scheduleAutoSave.
TimerFire ==
    \E t \in timers :
        /\ t.left = 0
        /\ timers' = timers \ {t}
        /\ SaveCanvas
        /\ lastOp' = Plain("timerFlush")
        /\ UNCHANGED <<canvas, surface, historyVars, batchVars, mounted, autoListening,
                       timeoutRef, sinceMutation, gap, afterFail>>

\* One clock tick passes; a timer that is due fires first.
Tick ==
    /\ \A t \in timers : t.left > 0
    /\ timers' = {[t EXCEPT !.left = t.left - 1] : t \in timers}
    /\ sinceMutation' = Cap(sinceMutation + 1)
    /\ lastOp' = Plain("tick")
    /\ UNCHANGED <<canvas, surface, historyVars, batchVars, mounted, autoListening,
                   timeoutRef, isSaving, saving, lastSaved, thrown, gap,
                   prevFlush, afterFail>>

\* The host calls the saveCanvas the hook returns.
ManualFlush ==
    /\ mounted
    /\ SaveCanvas
    /\ lastOp' = Plain("manualFlush")
    /\ afterFail' = "no"
    /\ UNCHANGED <<canvas, surface, historyVars, batchVars, mounted, autoListening,
                   timers, timeoutRef, sinceMutation, gap>>

\* The onSave call i settles, and a rejection schedules another attempt.
SettleSave_Retries(i, outcome) ==
    LET st == Settled(lastSaved, saving[i], outcome)
        again == outcome = "rejected"
    IN  /\ lastSaved' = st.lastSaved
        /\ isSaving' = st.isSaving
        /\ thrown' = (thrown \/ st.thrown)
        /\ saving' = SubSeq(saving, 1, i - 1) \o SubSeq(saving, i + 1, Len(saving))
        /\ lastOp' = Plain(IF outcome = "resolved" THEN "saveResolved"
                           ELSE "saveRejected")
        /\ prevFlush' = IF outcome = "rejected" /\ prevFlush = "called"
                        THEN "calledFailed" ELSE prevFlush
        /\ afterFail' = IF outcome = "resolved" THEN afterFail
                        ELSE IF timers = {} THEN "failedIdle" ELSE "failed"
        /\ timers' = IF again THEN Scheduled(timers, timeoutRef).timers ELSE timers
        /\ timeoutRef' = IF again THEN Scheduled(timers, timeoutRef).timeoutRef
                         ELSE timeoutRef
        /\ UNCHANGED <<canvas, surface, historyVars, batchVars, mounted, autoListening,
                       sinceMutation, gap>>

\* The onSave call i settles.
SettleSave(i, outcome) ==
    LET st == Settled(lastSaved, saving[i], outcome)
    IN  /\ lastSaved' = st.lastSaved
        /\ isSaving' = st.isSaving
        /\ thrown' = (thrown \/ st.thrown)
        /\ saving' = SubSeq(saving, 1, i - 1) \o SubSeq(saving, i + 1, Len(saving))
        /\ lastOp' = Plain(IF outcome = "resolved" THEN "saveResolved"
                           ELSE "saveRejected")
        /\ prevFlush' = IF outcome = "rejected" /\ prevFlush = "called"
                        THEN "calledFailed" ELSE prevFlush
        /\ afterFail' = IF outcome = "resolved" THEN afterFail
                        ELSE IF timers = {} THEN "failedIdle" ELSE "failed"
        /\ UNCHANGED <<canvas, surface, historyVars, batchVars, mounted, autoListening,
                       timers, timeoutRef, sinceMutation, gap>>

\* The cleanups of the two effects without the clearTimeout.
EffectCleanups_KeepsTimer ==
    /\ SaveCanvas
    /\ afterFail' = "no"
    /\ UNCHANGED <<canvas, surface, historyVars, batchVars, timers, timeoutRef,
                   sinceMutation, gap>>

\* The cleanups of the two effects: the listeners are removed and the pending
\* timer cleared, then saveCanvas() is called and not awaited.
EffectCleanups ==
    /\ timers' = {t \in timers : t.id # timeoutRef}
    /\ SaveCanvas
    /\ afterFail' = "no"
    /\ UNCHANGED <<canvas, surface, historyVars, batchVars, timeoutRef, sinceMutation, gap>>

\* The component unmounts.
Unmount ==
    /\ mounted
    /\ mounted' = FALSE
    /\ autoListening' = FALSE
    /\ lastOp' = Plain(IF autoListening THEN "unmount" ELSE "unmountIdle")
    /\ IF autoListening
       THEN EffectCleanups
       ELSE UNCHANGED <<canvas, surface, historyVars, batchVars, timers, timeoutRef,
                        isSaving, saving, lastSaved, thrown, sinceMutation,
                        gap, prevFlush, afterFail>>

\* onSave changes identity (another mockupId): both effects are cleaned up and
\* run again.
EffectRerun ==
    /\ mounted
    /\ autoListening
    /\ EffectCleanups
    /\ lastOp' = Plain("rerun")
    /\ UNCHANGED <<mounted, autoListening>>

NextAutoSave ==
    \/ HandleCanvasChange
    \/ AutoSaveEffect
    \/ SurfaceEdit
    \/ \E json \in Blobs : Deserialized(json)
    \/ TimerFire
    \/ Tick
    \/ ManualFlush
    \/ \E i \in DOMAIN saving, outcome \in {"resolved", "rejected"} :
          SettleSave(i, outcome)
    \/ Unmount
    \/ EffectRerun

SpecAutoSave == Init /\ [][NextAutoSave]_vars

AutoTypeOK ==
    /\ mounted \in BOOLEAN /\ autoListening \in BOOLEAN
    /\ \A t \in timers : t.left \in 0 .. Interval
    /\ timeoutRef \in Nat
    /\ isSaving \in BOOLEAN /\ thrown \in BOOLEAN
    /\ \A i \in DOMAIN saving : saving[i] \in Blobs
    /\ lastSaved \in Blobs \cup {NoBlob}
    /\ sinceMutation \in 0 .. Interval + 1 /\ gap \in 0 .. Interval + 1
    /\ prevFlush \in {"none", "skipped", "called", "calledFailed", "suppressed"}
    /\ afterFail \in {"no", "failed", "failedIdle"}

----------------------------------------------------------------------------
\* Properties of useAutoSave, checked under SpecAutoSave.

\* The steps that call saveCanvas(): the timer callback, the returned
\* function, and the cleanup of the unmount effect.
FlushOps == {"timerFlush", "manualFlush", "unmount", "rerun"}
FlushStep == lastOp'.op \in FlushOps
SettleStep == lastOp'.op \in {"saveResolved", "saveRejected"}
PersistStarts == Len(saving') > Len(saving)
TimerStarts == ~(timers' \subseteq timers) /\ lastOp'.op # "tick"

\* C14: under any interleaving of timer fires, manual flushes, mutation events
\* and teardown at most one onSave call is outstanding; a flush made while one
\* is outstanding calls nothing, and the settlement of that call starts no
\* call either (the dropped flush was not queued).
OnePersistAtATime ==
    /\ [](Len(saving) <= 1)
    /\ [][/\ (FlushStep /\ saving # <<>>) => saving' = saving
          /\ SettleStep => saving' = <<>>]_vars

\* A flush was dropped only because a call is outstanding: the surface
\* differs from the blob in flight and from the last saved one.
OnePersistAtATimeWitness ==
    /\ lastOp.op \in FlushOps
    /\ prevFlush \in {"skipped", "suppressed"}
    /\ Len(saving) = 1
    /\ ToJSON(surface) # saving[1]
    /\ ToJSON(surface) # lastSaved

\* C15: no onSave call starts with a blob equal to lastSavedRef at that
\* moment; a flush made while the surface serializes to lastSavedRef calls
\* nothing.
NeverPersistsSavedBlob ==
    [][/\ PersistStarts => saving'[Len(saving')] # lastSaved
       /\ (FlushStep /\ ToJSON(surface) = lastSaved) => ~PersistStarts]_vars

\* After a successful save of B a flush with the surface still at B was made,
\* with nothing in flight, and called nothing.
NeverPersistsSavedBlobWitness ==
    /\ lastOp.op = "manualFlush"
    /\ prevFlush = "suppressed"
    /\ saving = <<>>
    /\ ~isSaving
    /\ lastSaved = ToJSON(surface)

\* C16: when the onSave call settles isSavingRef becomes false on either
\* outcome; lastSavedRef becomes the blob serialized when that flush started
\* if the call resolved and keeps its value if it rejected; nothing is thrown
\* to the caller.
SettlementBookkeeping ==
    [][SettleStep =>
         /\ ~isSaving'
         /\ ~thrown'
         /\ lastOp'.op = "saveResolved" => lastSaved' = saving[1]
         /\ lastOp'.op = "saveRejected" => lastSaved' = lastSaved]_vars

\* A call rejected after an earlier one had resolved: the earlier blob is
\* still the saved one, and it is not what the surface holds.
SettlementBookkeepingWitness ==
    /\ lastOp.op = "saveRejected"
    /\ ~isSaving
    /\ lastSaved # NoBlob
    /\ lastSaved # ToJSON(surface)

\* C17, as stated: two flushes in succession with no mutation of the surface
\* between them, the first of which calls onSave, make exactly one onSave
\* call, whether the first call resolved, rejected or is still outstanding.
TwoFlushesOnePersist ==
    [][(FlushStep /\ prevFlush \in {"called", "calledFailed"})
          => ~PersistStarts]_vars

\* C17, amended: the second flush calls nothing when the first call resolved
\* or is still outstanding; when the first call rejected before the second
\* flush started, the second flush calls onSave again.
TwoFlushesOnePersistUnlessRejected ==
    [][/\ (FlushStep /\ prevFlush = "called") => ~PersistStarts
       /\ (FlushStep /\ prevFlush = "calledFailed") => PersistStarts]_vars

\* The second of two flushes with no mutation between them was suppressed.
TwoFlushesWitness ==
    /\ lastOp.op \in FlushOps
    /\ prevFlush = "suppressed"

\* C18: at most one debounce timer is pending at any moment, across
\* mutations, timer fires and effect re-runs; the pending one is the one
\* timeoutRef names.
OneTimerPending ==
    /\ Cardinality(timers) <= 1
    /\ \A t \in timers : t.id = timeoutRef

\* A mutation arrived while the timer of an earlier one was pending, and one
\* timer is pending after it.
OneTimerPendingWitness ==
    /\ lastOp.op = "mutation"
    /\ sinceMutation = 0
    /\ gap < Interval
    /\ Cardinality(timers) = 1

QuietStep == lastOp'.op \in {"tick", "timerFlush", "saveResolved", "saveRejected"}

\* C20, as stated: after an onSave call failed, and as long as no mutation
\* event, manual flush or teardown follows, no timer is started and no
\* onSave call is made.
NoRetryAfterFailure ==
    [][(afterFail # "no" /\ QuietStep) => ~PersistStarts /\ ~TimerStarts]_vars

\* C20, amended: the failure itself starts no timer and no onSave call; when
\* no timer was pending at the failure, none is started and no onSave call is
\* made until a mutation event, a manual flush or teardown. (A timer a
\* mutation scheduled while the call was outstanding still fires.)
NoRetryAfterFailureUnlessPending ==
    [][/\ lastOp'.op = "saveRejected" => ~PersistStarts /\ ~TimerStarts
       /\ (afterFail = "failedIdle" /\ QuietStep)
             => ~PersistStarts /\ ~TimerStarts /\ timers' = {}]_vars

\* A full interval has passed since a call failed with no timer pending, and
\* the surface is still not saved.
NoRetryAfterFailureWitness ==
    /\ afterFail = "failedIdle"
    /\ lastOp.op = "tick"
    /\ sinceMutation = Interval + 1
    /\ saving = <<>>
    /\ lastSaved # ToJSON(surface)

----------------------------------------------------------------------------
\* Properties of teardown and of the page wiring of useAutoSave.

\* C21: unmounting the hook leaves no timer pending and no listener
\* registered, and makes one saveCanvas() attempt that is not awaited (it
\* calls onSave exactly when saveCanvas's two tests pass, and the call may
\* still be outstanding afterwards); no timer-driven flush happens after it.
TeardownCancelsAndFlushesOnce ==
    /\ [](~mounted => timers = {} /\ ~autoListening)
    /\ [][/\ lastOp'.op = "unmount" =>
               /\ PersistStarts
                    <=> ShouldSave(canvas, isSaving, ToJSON(surface), lastSaved)
               /\ Len(saving') <= Len(saving) + 1
               /\ PersistStarts => saving'[Len(saving')] = ToJSON(surface)
          /\ ~mounted => lastOp'.op # "timerFlush"]_vars

\* The hook was unmounted while a timer was pending, its flush called onSave,
\* and the call is still outstanding.
TeardownWitness ==
    /\ ~mounted
    /\ lastOp.op = "unmount"
    /\ sinceMutation < Interval
    /\ prevFlush = "called"
    /\ saving = <<ToJSON(surface)>>
    /\ timers = {}

\* C22: when the hook is unmounted while an onSave call is outstanding, the
\* flush of the unmount calls nothing and the outstanding call stays as it
\* is; the blob an outstanding call carries never changes until it settles,
\* whatever happens to the surface.
TeardownDuringPersist ==
    [][/\ (lastOp'.op = "unmount" /\ saving # <<>>) => saving' = saving
       /\ (saving # <<>> /\ ~SettleStep) =>
             /\ Len(saving') >= Len(saving)
             /\ \A i \in DOMAIN saving : saving'[i] = saving[i]]_vars

\* The hook was unmounted while a call was outstanding whose blob is no
\* longer what the surface serializes to.
TeardownDuringPersistWitness ==
    /\ ~mounted
    /\ lastOp.op = "unmount"
    /\ prevFlush \in {"skipped", "suppressed"}
    /\ Len(saving) = 1
    /\ saving[1] # ToJSON(surface)

\* C23: every surface event that useCanvasHistory's handler records (added,
\* removed, modified, skewing) also reaches handleModification of useAutoSave
\* while its listeners are registered, and restarts the debounce timer.
RecordedEventsScheduleAutoSave ==
    [][(/\ autoListening
        /\ \/ lastOp'.op = "mutation"
           \/ lastOp'.op = "skew" /\ "object:skewing" \in HistoryEvents)
          => /\ sinceMutation' = 0
             /\ \E t \in timers' : t.left = Interval]_vars

\* C24: the final edit is not lost. Once the hook has heard a mutation and is
\* unmounted, the surface has not changed since the unmount's flush, no onSave
\* call has failed since and none is outstanding, nothing is left that could
\* still save (no timer, no listener, no call): the last saved blob must then
\* be what the surface serializes to.
FinalEditPersisted ==
    (/\ ~mounted
     /\ timeoutRef # 0
     /\ prevFlush \in {"called", "skipped", "suppressed"}
     /\ afterFail = "no"
     /\ saving = <<>>
     /\ timers = {})
        => lastSaved = ToJSON(surface)

----------------------------------------------------------------------------
\* Properties of the flags and of the undo and redo round trip, checked under
\* Spec.

\* C25: whenever no loadFromJSON callback is pending the flags agree with the
\* cursor: canUndo = (position > 0) and canRedo = (position < length - 1).
FlagsAgreeWithCursor ==
    loads = <<>> =>
        /\ canUndo = (historyStep > 0)
        /\ canRedo = (historyStep < Len(history) - 1)

----------------------------------------------------------------------------
\* The editor page's wiring of useAutoSave: onSave is handleAutoSave, and the
\* saveCanvas the hook returns is not used.

\* handleAutoSave: the try block awaits mockupsApi.update, the catch block
\* logs the error, so the promise useAutoSave awaits resolves on both
\* outcomes of the backend call.
HandleAutoSave(backend) ==
    IF backend = "ok" THEN "resolved" ELSE "resolved"

\* The backend update of the onSave call i completes, and saveCanvas resumes
\* with what handleAutoSave makes of it.
BackendSettles(i, backend) ==
    LET outcome == HandleAutoSave(backend)
        st      == Settled(lastSaved, saving[i], outcome)
    IN  /\ lastSaved' = st.lastSaved
        /\ isSaving' = st.isSaving
        /\ thrown' = (thrown \/ st.thrown)
        /\ saving' = SubSeq(saving, 1, i - 1) \o SubSeq(saving, i + 1, Len(saving))
        /\ lastOp' = Plain(IF backend = "ok" THEN "updateOk" ELSE "updateFailed")
        /\ prevFlush' = IF outcome = "rejected" /\ prevFlush = "called"
                        THEN "calledFailed" ELSE prevFlush
        /\ afterFail' = IF outcome = "resolved" THEN afterFail
                        ELSE IF timers = {} THEN "failedIdle" ELSE "failed"
        /\ UNCHANGED <<canvas, surface, historyVars, batchVars, mounted, autoListening,
                       timers, timeoutRef, sinceMutation, gap>>

NextEditorPage ==
    \/ HandleCanvasChange
    \/ AutoSaveEffect
    \/ SurfaceEdit
    \/ \E json \in Blobs : Deserialized(json)
    \/ TimerFire
    \/ Tick
    \/ \E i \in DOMAIN saving, backend \in {"ok", "error"} :
          BackendSettles(i, backend)
    \/ Unmount
    \/ EffectRerun

SpecEditorPage == Init /\ [][NextEditorPage]_vars

\* C26: in the editor page, when the backend update of an auto-save fails the
\* failed content is not recorded as saved: lastSavedRef keeps its value (so
\* that the next flush of the same content calls the backend again).
FailedUpdateNotRecorded ==
    [][lastOp'.op = "updateFailed" => lastSaved' = lastSaved]_vars

\* C27: undo() followed by redo() with no user edit between them, started
\* with position > 0, the handler registered as the page wires it and nothing
\* pending, returns the position, the log and the surface's serialization to
\* what they were before the undo.
UndoRedoRoundTrip ==
    trip.stage = "done" =>
        /\ historyStep = trip.step
        /\ history = trip.log
        /\ ToJSON(surface) = trip.blob

----------------------------------------------------------------------------
\* Actions of BatchGenerator

Remove(seq, i) == SubSeq(seq, 1, i - 1) \o SubSeq(seq, i + 1, Len(seq))

\* Bookkeeping counters stop at 2: two or more.
Bump(f, j) == [f EXCEPT ![j] = Min(f[j] + 1, 2)]

\* The polling effect for a value of jobId: the cleanup of its last run clears
\* that run's interval, and a new interval is created unless jobId is null.
PollEffect(job) ==
    IF job = 0
    THEN /\ pollInterval' = 0
         /\ UNCHANGED intervalsMade
    ELSE /\ pollInterval' = intervalsMade + 1
         /\ intervalsMade' = intervalsMade + 1

\* handleStart up to the await of startGeneration; the button is shown while
\* jobId is null and disabled while isStarting.
HandleStart ==
    /\ jobId = 0
    /\ ~isStarting
    /\ \E j \in Jobs : backendJobs[j] = "none"
    /\ intervalsMade < MaxIntervals
    /\ isStarting' = TRUE
    /\ sinceReset' = FALSE
    /\ lastOp' = Plain("start")
    /\ UNCHANGED <<canvas, surface, historyVars, autoVars, jobId, jobStatus,
                   results, backendJobs, pollInterval, intervalsMade, polls,
                   cancels, fetched, completions, terminalSeen>>

\* startGeneration settles: the backend has created a job, or the request
\* failed.
StartResponds(ok) ==
    /\ isStarting
    /\ isStarting' = FALSE
    /\ lastOp' = Plain(IF ok THEN "started" ELSE "startFailed")
    /\ IF ok
       THEN LET j == CHOOSE k \in Jobs :
                       /\ backendJobs[k] = "none"
                       /\ \A l \in Jobs : backendJobs[l] = "none" => k <= l
            IN  /\ backendJobs' = [backendJobs EXCEPT ![j] = "pending"]
                /\ jobId' = j
                /\ jobStatus' = "pending"
                /\ PollEffect(j)
       ELSE UNCHANGED <<backendJobs, jobId, jobStatus, pollInterval,
                        intervalsMade>>
    /\ UNCHANGED <<canvas, surface, historyVars, autoVars, results, polls,
                   cancels, fetched, completions, terminalSeen, sinceReset>>

\* The backend works on job j.
BackendProgress(j, next) ==
    /\ \/ backendJobs[j] = "pending" /\ next = "in_progress"
       \/ backendJobs[j] = "in_progress" /\ next \in {"completed", "failed"}
    /\ backendJobs' = [backendJobs EXCEPT ![j] = next]
    /\ lastOp' = Plain("backend")
    /\ UNCHANGED <<canvas, surface, historyVars, autoVars, jobId, jobStatus,
                   results, isStarting, pollInterval, intervalsMade, polls,
                   cancels, fetched, completions, terminalSeen, sinceReset>>

\* The interval fires: its callback calls getJobStatus(jobId) and awaits it.
PollTick ==
    /\ pollInterval # 0
    /\ Len(polls) < MaxPolls
    /\ polls' = Append(polls, [job |-> jobId, timer |-> pollInterval,
                               stage |-> "status"])
    /\ lastOp' = Plain("pollTick")
    /\ UNCHANGED <<canvas, surface, historyVars, autoVars, jobId, jobStatus,
                   results, isStarting, backendJobs, pollInterval,
                   intervalsMade, cancels, fetched, completions, terminalSeen,
                   sinceReset>>

\* getJobStatus settles in callback i: setJobStatus, and on completed or
\* failed clearInterval of the callback's own interval; on completed the
\* callback goes on to getResults. A rejection is caught and logged.
StatusResponds(i, ok) ==
    LET poll == polls[i]
        st   == backendJobs[poll.job]
    IN  /\ poll.stage = "status"
        /\ lastOp' = Plain(IF ok THEN "status" ELSE "statusFailed")
        /\ IF ok
           THEN /\ jobStatus' = st
                /\ terminalSeen' = [terminalSeen EXCEPT ![poll.job] =
                                      @ \/ st \in TerminalStatuses]
                /\ pollInterval' = IF st \in StopStatuses /\ pollInterval = poll.timer
                                   THEN 0 ELSE pollInterval
                /\ IF st = "completed"
                   THEN /\ polls' = [polls EXCEPT ![i].stage = "results"]
                        /\ fetched' = Bump(fetched, poll.job)
                   ELSE /\ polls' = Remove(polls, i)
                        /\ UNCHANGED fetched
           ELSE /\ polls' = Remove(polls, i)
                /\ UNCHANGED <<jobStatus, terminalSeen, pollInterval, fetched>>
        /\ UNCHANGED <<canvas, surface, historyVars, autoVars, jobId, results,
                       isStarting, backendJobs, intervalsMade, cancels,
                       completions, sinceReset>>

\* getResults settles in callback i: setResults and onComplete. A rejection
\* is caught and logged.
ResultsRespond(i, ok) ==
    LET poll == polls[i]
    IN  /\ poll.stage = "results"
        /\ lastOp' = Plain(IF ok THEN "results" ELSE "resultsFailed")
        /\ polls' = Remove(polls, i)
        /\ IF ok
           THEN /\ results' = poll.job
                /\ completions' = Bump(completions, poll.job)
           ELSE UNCHANGED <<results, completions>>
        /\ UNCHANGED <<canvas, surface, historyVars, autoVars, jobId,
                       jobStatus, isStarting, backendJobs, pollInterval,
                       intervalsMade, cancels, fetched, terminalSeen,
                       sinceReset>>

\* handleCancel up to the await of cancelJob; the button is shown while the
\* job is pending or in progress.
HandleCancel ==
    /\ jobId # 0
    /\ jobStatus \in {"pending", "in_progress"}
    /\ Len(cancels) < MaxPolls
    /\ cancels' = Append(cancels, jobId)
    /\ lastOp' = Plain("cancel")
    /\ UNCHANGED <<canvas, surface, historyVars, autoVars, jobId, jobStatus,
                   results, isStarting, backendJobs, pollInterval,
                   intervalsMade, polls, fetched, completions, terminalSeen,
                   sinceReset>>

\* cancelJob settles: the backend has cancelled a job that was not finished
\* and the shown status becomes cancelled; or the request failed.
CancelResponds(i, ok) ==
    LET j == cancels[i]
    IN  /\ ok => backendJobs[j] \in {"pending", "in_progress"}
        /\ cancels' = Remove(cancels, i)
        /\ lastOp' = Plain(IF ok THEN "cancelled" ELSE "cancelFailed")
        /\ IF ok
           THEN /\ backendJobs' = [backendJobs EXCEPT ![j] = "cancelled"]
                /\ jobStatus' = IF jobStatus = "null" THEN "null" ELSE "cancelled"
           ELSE UNCHANGED <<backendJobs, jobStatus>>
        /\ UNCHANGED <<canvas, surface, historyVars, autoVars, jobId, results,
                       isStarting, pollInterval, intervalsMade, polls, fetched,
                       completions, terminalSeen, sinceReset>>

\* handleReset; the button is shown when the shown status is completed,
\* failed or cancelled. The polling effect runs for jobId = null.
HandleReset ==
    /\ jobId # 0
    /\ jobStatus \in {"completed", "failed", "cancelled"}
    /\ jobId' = 0
    /\ jobStatus' = "null"
    /\ results' = 0
    /\ PollEffect(0)
    /\ sinceReset' = TRUE
    /\ lastOp' = Plain("reset")
    /\ UNCHANGED <<canvas, surface, historyVars, autoVars, isStarting,
                   backendJobs, polls, cancels, fetched, completions,
                   terminalSeen>>

\* The page renders again and passes a new onComplete function (the page's
\* handleBatchComplete is created on every render): the polling effect runs
\* again for the same jobId.
OnCompleteChanges ==
    /\ jobId # 0
    /\ intervalsMade < MaxIntervals
    /\ PollEffect(jobId)
    /\ lastOp' = Plain("rerender")
    /\ UNCHANGED <<canvas, surface, historyVars, autoVars, jobId, jobStatus,
                   results, isStarting, backendJobs, polls, cancels, fetched,
                   completions, terminalSeen, sinceReset>>

NextBatch ==
    \/ HandleStart
    \/ \E ok \in BOOLEAN : StartResponds(ok)
    \/ \E j \in Jobs, next \in {"in_progress", "completed", "failed"} :
          BackendProgress(j, next)
    \/ PollTick
    \/ \E i \in DOMAIN polls, ok \in BOOLEAN : StatusResponds(i, ok)
    \/ \E i \in DOMAIN polls, ok \in BOOLEAN : ResultsRespond(i, ok)
    \/ HandleCancel
    \/ \E i \in DOMAIN cancels, ok \in BOOLEAN : CancelResponds(i, ok)
    \/ HandleReset
    \/ OnCompleteChanges

SpecBatch == Init /\ [][NextBatch]_vars

BatchTypeOK ==
    /\ jobId \in 0 .. MaxJobs
    /\ jobStatus \in {"null", "pending", "in_progress"} \cup TerminalStatuses
    /\ results \in 0 .. MaxJobs
    /\ isStarting \in BOOLEAN
    /\ \A j \in Jobs : backendJobs[j] \in
           {"none", "pending", "in_progress"} \cup TerminalStatuses
    /\ pollInterval \in 0 .. MaxIntervals
    /\ intervalsMade \in 0 .. MaxIntervals
    /\ Len(polls) <= MaxPolls
    /\ Len(cancels) <= MaxPolls
    /\ \A j \in Jobs : fetched[j] \in 0 .. 2 /\ completions[j] \in 0 .. 2
    /\ sinceReset \in BOOLEAN

----------------------------------------------------------------------------
\* Properties of BatchGenerator, checked under SpecBatch.

\* C28: for one job getResults is requested at most once and onComplete is
\* invoked at most once, whatever the interleaving of interval ticks,
\* responses and re-runs of the polling effect.
ResultsFetchedOnce ==
    \A j \in Jobs : fetched[j] <= 1 /\ completions[j] <= 1

\* C29: once a status response has reported job jobId as completed, failed or
\* cancelled, no interval tick issues another status request for it.
PollingStopsAtTerminal ==
    [][lastOp'.op = "pollTick" => ~terminalSeen[jobId']]_vars

\* C30: from handleReset until the next call of handleStart jobStatus is null
\* and results is empty, also when a request issued before the reset settles
\* after it.
ResetStaysCleared ==
    sinceReset => jobStatus = "null" /\ results = 0

====
